---- MODULE Spec2Model ----
(***************************************************************************)
(* Campaign manager: the recipient-processing and campaign-dispatch        *)
(* pipeline (app/worker.py), the request path that feeds it (app/main.py)  *)
(* and the directory operations it shares the store with                   *)
(* (app/services/recipient_service.py).                                    *)
(*                                                                         *)
(* The store is a relational database reached through SQLAlchemy sessions  *)
(* made by SessionLocal (autocommit=False, autoflush=False).  A session    *)
(* reads the committed rows at the moment of each statement, keeps the     *)
(* objects it has loaded (a row loaded twice is the same object, with the  *)
(* attributes of its first load), keeps new objects pending until commit,  *)
(* and writes everything at commit, atomically.  Ids are row numbers.      *)
(***************************************************************************)
EXTENDS Integers, Sequences, FiniteSets, TLC

\* ---------------------------------------------------------------- bounds
MaxListLen == 3      \* longest recipient_emails list of a campaign
MaxCampaigns == 1    \* campaigns created through create_campaign
MaxRuns == 2         \* task runs (a message may be delivered more than once)
MaxSends == 1        \* send requests accepted
MaxRequests == 2     \* directory requests served

Emails == {"a", "b"}
Workers == {1, 2}
EmailLists == UNION {[1..n -> Emails] : n \in 0..MaxListLen}
NoGroup == 0
Groups == {1}
NoName == ""
GroupNames == {"vip", "news"}

VARIABLES
  recipients,   \* table recipients: row id -> [email, opt_out, group_id]
  campaigns,    \* table campaigns: row id -> [status, title, message]
  links,        \* table campaign_recipients: <<campaign_id, recipient_id>> -> number of rows
  queue,        \* task queue: messages [kind, cid, emails, n], n = deliveries so far
  worker,       \* each worker's running task: position and session
  req,          \* the request in flight on the request path
  resp,         \* the response to the last request
  served,       \* number of directory requests served so far
  log,          \* job result channel: one entry per finished task run
  channel,      \* notification channel: the sends it was invoked for
  chanFails,    \* addresses for which the channel's send fails
  store0,       \* the store when the system was started
  groups,       \* table groups: row id -> [name]
  peer          \* a second client of the request path: its call in flight and its response

vars == <<recipients, campaigns, links, queue, worker, req, resp, served, log, channel, chanFails, store0, groups, peer>>

\* ------------------------------------------------------------- the store
RowIds == DOMAIN recipients

\* the store as one value
Store == [recipients |-> recipients, campaigns |-> campaigns, links |-> links]

\* db.query(Recipient).filter(Recipient.email == email).first(): 0 is None
QueryRecipientNone(table, email) == 0
QueryRecipient(table, email) ==
  LET found == {r \in DOMAIN table : table[r].email = email}
  IN  IF found = {} THEN 0 ELSE CHOOSE r \in found : \A q \in found : r <= q

\* db.query(Campaign).filter(Campaign.id == cid).first(): 0 is None
QueryCampaignFirst(cid) == IF campaigns = <<>> THEN 0 ELSE 1
QueryCampaign(cid) == IF cid \in DOMAIN campaigns THEN cid ELSE 0

LinkCount(l, cid, rid) == IF <<cid, rid>> \in DOMAIN l THEN l[<<cid, rid>>] ELSE 0

\* campaign_recipients has no primary key and no unique constraint: an
\* INSERT of a pair that is already there adds a second row
InsertLink(l, cid, rid) ==
  [p \in DOMAIN l \cup {<<cid, rid>>} |->
     IF p = <<cid, rid>> THEN LinkCount(l, cid, rid) + 1 ELSE l[p]]

RECURSIVE InsertLinks(_, _, _)
InsertLinks(l, cid, rids) ==
  IF rids = {} THEN l
  ELSE LET r == CHOOSE x \in rids : TRUE
       IN  InsertLinks(InsertLink(l, cid, r), cid, rids \ {r})

\* the lazy load of campaign.recipients: the recipients joined through
\* campaign_recipients, each object once
LoadRecipients(l, cid) == {p[2] : p \in {q \in DOMAIN l : q[1] = cid}}

\* Recipient.email is unique=True: the INSERT of `emails` (in this order)
\* violates the constraint when one of them is already in the table or
\* is inserted twice
UniqueViolationNone(table, emails) == FALSE
UniqueViolation(table, emails) ==
  \/ \E i \in DOMAIN emails : \E r \in DOMAIN table : table[r].email = emails[i]
  \/ \E i, j \in DOMAIN emails : i /= j /\ emails[i] = emails[j]

NewRecipient(email, optOut) ==
  [email |-> email, opt_out |-> optOut, group_id |-> NoGroup, name |-> NoName]

RECURSIVE InsertRecipients(_, _, _)
InsertRecipients(table, emails, optOut) ==
  IF emails = <<>> THEN table
  ELSE InsertRecipients(Append(table, NewRecipient(Head(emails), optOut)), Tail(emails), optOut)

\* models.Campaign(title=..., message=...): status defaults to "pending"
NewCampaignQueued(title, message) == [status |-> "queued", title |-> title, message |-> message]
NewCampaign(title, message) == [status |-> "pending", title |-> title, message |-> message]

\* an attribute set to the value it was loaded with is no change: the
\* flush writes a column only when its value differs from the loaded one
FlushAttr(loaded, new, current) == IF new = loaded THEN current ELSE new

SetStatusAll(table, cid, loaded, new) ==
  [c \in DOMAIN table |-> [table[c] EXCEPT !.status = new]]
SetStatus(table, cid, loaded, new) ==
  [table EXCEPT ![cid].status = FlushAttr(loaded, new, @)]

\* ------------------------------------------------------- the request path
NoRequest == [op |-> "none", email |-> "", cid |-> 0, found |-> 0, loaded |-> FALSE,
              status |-> "none", emails |-> <<>>, name |-> NoName, gid |-> NoGroup,
              optOut |-> "keep", i |-> 0, pc |-> "none", assigned |-> {},
              returned |-> <<>>, row |-> NewRecipient("", FALSE)]
NoResponse == [op |-> "none", status |-> "none", email |-> "", cid |-> 0, found |-> 0,
               loaded |-> FALSE, returned |-> <<>>, name |-> NoName, gid |-> NoGroup,
               emails |-> <<>>]
NoPeer == [req |-> NoRequest, resp |-> NoResponse]

\* the groups table of a running system: the group the recipients refer to
GroupTable == <<[name |-> "vip"]>>

\* the response to the request r: its outcome, with what the request asked
\* for and what its query had found
Response(r, status) ==
  [op |-> r.op, status |-> status, email |-> r.email, cid |-> r.cid, found |-> r.found,
   loaded |-> r.loaded, returned |-> r.returned, name |-> r.name, gid |-> r.gid,
   emails |-> r.emails]

\* ---------------------------------------------------------------- workers
EmptyMap == [x \in {} |-> FALSE]

IdleWorker ==
  [pc |-> "idle", kind |-> "none", cid |-> 0, emails |-> <<>>, i |-> 0,
   loadedStatus |-> "none", identity |-> EmptyMap, loaded |-> FALSE, coll |-> {},
   pending |-> <<>>, appended |-> {}, processed_count |-> 0, skipped_count |-> 0,
   errors |-> <<>>, skippedIds |-> {}, active |-> <<>>, sent_count |-> 0,
   error_count |-> 0, newStatus |-> "none", attempted |-> {}, readOptOut |-> {},
   lateOptOut |-> {}, prior |-> 0, invoked |-> <<>>, broken |-> FALSE, faultAt |-> 0]

\* a session opened for a task on campaign cid
StartTask(kind, cid, emails, status, prior) ==
  [IdleWorker EXCEPT !.kind = kind, !.cid = cid, !.emails = emails, !.prior = prior,
                     !.loadedStatus = status, !.i = 1,
                     !.pc = IF kind = "send_campaign" THEN "load"
                            ELSE IF emails = <<>> THEN "commit" ELSE "recipients"]

\* a task run ends: its return value or exception goes to the result channel
Outcome(w, status, inserted, linked) ==
  [kind |-> w.kind, cid |-> w.cid, emails |-> w.emails, status |-> status,
   processed_count |-> w.processed_count, skipped_count |-> w.skipped_count,
   error_count |-> IF w.kind = "send_campaign" THEN w.error_count ELSE Len(w.errors),
   errors |-> w.errors, sent_count |-> w.sent_count,
   skippedIds |-> w.skippedIds, inserted |-> inserted, linked |-> linked,
   active |-> w.active, prior |-> w.prior, invoked |-> w.invoked,
   faultAt |-> w.faultAt]

\* task runs so far
RECURSIVE Runs(_)
Runs(q) == IF q = <<>> THEN 0 ELSE Head(q).n + Runs(Tail(q))

\* a worker takes a message (the idle workers are alike: the first of them
\* does): db = SessionLocal(); the campaign query
Deliver(wk, m) ==
  /\ worker[wk].pc = "idle"
  /\ \A o \in Workers : worker[o].pc = "idle" => wk <= o
  /\ m \in DOMAIN queue
  /\ Runs(queue) < MaxRuns
  /\ queue' = [queue EXCEPT ![m].n = @ + 1]
  /\ LET msg == queue[m]
         c == QueryCampaign(msg.cid)
     IN  IF c = 0
         THEN /\ log' = Append(log, Outcome(
                   [IdleWorker EXCEPT !.kind = msg.kind, !.cid = msg.cid,
                                      !.emails = msg.emails, !.prior = Len(log)],
                   "NotFound", {}, {}))
              /\ UNCHANGED worker
         ELSE /\ worker' = [worker EXCEPT ![wk] =
                   StartTask(msg.kind, msg.cid, msg.emails, campaigns[c].status, Len(log))]
              /\ UNCHANGED log
  /\ UNCHANGED <<recipients, campaigns, links, req, resp, channel, chanFails, served, store0, groups, peer>>

\* the first access to campaign.recipients in a session loads the collection
\* and, into the session, the recipients in it that it does not hold yet
LazyLoad(w, st) ==
  IF w.loaded THEN w
  ELSE LET c == LoadRecipients(st.links, w.cid)
       IN  [w EXCEPT !.loaded = TRUE, !.coll = c,
              !.identity = [r \in DOMAIN w.identity \cup c |->
                              IF r \in DOMAIN w.identity THEN w.identity[r]
                              ELSE st.recipients[r].opt_out]]

\* a query result for a row the session already holds is the held object
Identify(w, st, rid) ==
  IF rid \in DOMAIN w.identity THEN w
  ELSE [w EXCEPT !.identity = [r \in DOMAIN w.identity \cup {rid} |->
                                 IF r = rid THEN st.recipients[rid].opt_out
                                 ELSE w.identity[r]]]

\* worker.py: if not recipient.opt_out
LinksEveryone(optOut) == TRUE
ShouldLink(optOut) == ~optOut

\* worker.py: if recipient not in campaign.recipients
NotInCampaign(w, rid) == rid \notin (w.coll \cup w.appended)

\* one pass of the loop `for email in recipient_emails` of
\* process_recipients_task, reading the store st
ProcessEmail(w0, st, email) ==
  LET rid == QueryRecipient(st.recipients, email)
  IN  IF rid = 0
      THEN \* the session is not flushed before a query (autoflush=False), so a
           \* Recipient added earlier in this run is not found: a new
           \* Recipient(email, opt_out=False) is added, and being a new object
           \* it is in no collection and is appended to campaign.recipients
           IF ShouldLink(FALSE)
           THEN [LazyLoad(w0, st) EXCEPT !.pending = Append(@, email),
                                         !.processed_count = @ + 1]
           ELSE [w0 EXCEPT !.pending = Append(@, email), !.skipped_count = @ + 1]
      ELSE LET w1 == Identify(w0, st, rid)
           IN  IF ShouldLink(w1.identity[rid])
               THEN LET w2 == LazyLoad(w1, st)
                    IN  IF NotInCampaign(w2, rid)
                        THEN [w2 EXCEPT !.appended = @ \cup {rid},
                                        !.processed_count = @ + 1]
                        ELSE w2
               ELSE [w1 EXCEPT !.skipped_count = @ + 1,
                               !.skippedIds = @ \cup {rid}]

\* a pass whose statement raises: except Exception records the email in
\* errors and the loop continues
FailedPass(w) == [w EXCEPT !.errors = Append(@, w.emails[w.i])]

\* in a transaction that a failed statement has aborted, every statement fails
ReconcileStep(wk) ==
  /\ worker[wk].pc = "recipients"
  /\ LET w == worker[wk]
     IN  worker' = [worker EXCEPT ![wk] =
           [(IF w.broken THEN FailedPass(w) ELSE ProcessEmail(w, Store, w.emails[w.i]))
            EXCEPT
              !.i = w.i + 1,
              !.pc = IF w.i = Len(w.emails) THEN "commit" ELSE "recipients"]]
  /\ UNCHANGED <<recipients, campaigns, links, queue, req, resp, log, channel, chanFails, served, store0, groups, peer>>

\* a store failure in one pass: the recipient query raises.  The task neither
\* rolls back nor opens a savepoint, so what becomes of the transaction is the
\* database's choice: it stays usable, or it is aborted (PostgreSQL, the
\* database of database.py, aborts it)
AfterFault == BOOLEAN

ReconcileFault(wk) ==
  /\ worker[wk].pc = "recipients"
  /\ ~worker[wk].broken
  /\ worker[wk].faultAt = 0
  /\ \E usable \in AfterFault :
       LET w == worker[wk]
       IN  worker' = [worker EXCEPT ![wk] =
             [FailedPass(w) EXCEPT
                !.faultAt = w.i,
                !.broken = ~usable,
                !.i = w.i + 1,
                !.pc = IF w.i = Len(w.emails) THEN "commit" ELSE "recipients"]]
  /\ UNCHANGED <<recipients, campaigns, links, queue, req, resp, log, channel, chanFails, served, store0, groups, peer>>

\* campaign.status = "recipients_processed"; db.commit(): the flush inserts the
\* pending recipients, then the link rows, and updates the campaign, as one
\* transaction; an IntegrityError leaves the store as it was
NewIds(w, st) == (Len(st.recipients) + 1)..(Len(st.recipients) + Len(w.pending))

\* in an aborted transaction the flush fails when it has a statement to
\* emit, and a COMMIT with nothing to flush ends the transaction without effect
Dirty(w) ==
  w.pending /= <<>> \/ w.appended /= {} \/ w.loadedStatus /= "recipients_processed"

ReconcileFlushPartial(w, st) ==
  IF w.broken \/ UniqueViolation(st.recipients, w.pending)
  THEN [ok |-> FALSE, inserted |-> {},
        store |-> [st EXCEPT !.links = InsertLinks(st.links, w.cid, w.appended)]]
  ELSE [ok |-> TRUE, inserted |-> w.appended \cup NewIds(w, st),
        store |-> [recipients |-> InsertRecipients(st.recipients, w.pending, FALSE),
                   links |-> InsertLinks(st.links, w.cid, w.appended \cup NewIds(w, st)),
                   campaigns |-> SetStatus(st.campaigns, w.cid, w.loadedStatus,
                                           "recipients_processed")]]
ReconcileFlushFailed(w, st) ==
  IF w.broken \/ UniqueViolation(st.recipients, w.pending)
  THEN [ok |-> FALSE, inserted |-> {},
        store |-> [st EXCEPT !.campaigns[w.cid].status = "failed"]]
  ELSE [ok |-> TRUE, inserted |-> w.appended \cup NewIds(w, st),
        store |-> [recipients |-> InsertRecipients(st.recipients, w.pending, FALSE),
                   links |-> InsertLinks(st.links, w.cid, w.appended \cup NewIds(w, st)),
                   campaigns |-> SetStatus(st.campaigns, w.cid, w.loadedStatus,
                                           "recipients_processed")]]
ReconcileFlush(w, st) ==
  IF w.broken
  THEN [ok |-> ~Dirty(w), inserted |-> {}, store |-> st]
  ELSE IF UniqueViolation(st.recipients, w.pending)
  THEN [ok |-> FALSE, inserted |-> {}, store |-> st]
  ELSE [ok |-> TRUE, inserted |-> w.appended \cup NewIds(w, st),
        store |-> [recipients |-> InsertRecipients(st.recipients, w.pending, FALSE),
                   links |-> InsertLinks(st.links, w.cid, w.appended \cup NewIds(w, st)),
                   campaigns |-> SetStatus(st.campaigns, w.cid, w.loadedStatus,
                                           "recipients_processed")]]

\* the end of process_recipients_task: the result dict is returned, or the
\* commit's exception is raised again as CampaignError
ReconcileCommit(wk) ==
  /\ worker[wk].pc = "commit"
  /\ worker[wk].kind = "process_recipients"
  /\ LET w == worker[wk]
         f == ReconcileFlush(w, Store)
     IN  /\ recipients' = f.store.recipients
         /\ links' = f.store.links
         /\ campaigns' = f.store.campaigns
         /\ log' = Append(log, Outcome(w, IF f.ok THEN "completed" ELSE "CampaignError",
                                       f.inserted, LoadRecipients(f.store.links, w.cid)))
  /\ worker' = [worker EXCEPT ![wk] = IdleWorker]
  /\ UNCHANGED <<queue, req, resp, channel, chanFails, served, store0, groups, peer>>

\* process_recipients_task run alone, from session to commit, on the store st
RECURSIVE RunLoop(_, _)
RunLoop(w, st) ==
  IF w.i > Len(w.emails) THEN w
  ELSE RunLoop([ProcessEmail(w, st, w.emails[w.i]) EXCEPT !.i = w.i + 1], st)

RunAlone(st, cid, emails) ==
  LET w == RunLoop(StartTask("process_recipients", cid, emails,
                             st.campaigns[cid].status, 0), st)
  IN  ReconcileFlush(w, st)

\* ------------------------------------------------------------- dispatch
\* worker.py: active_recipients = [r for r in campaign.recipients if not r.opt_out]
EveryoneActive(optOut) == TRUE
IsActive(optOut) == ~optOut

RECURSIVE Ascending(_)
Ascending(S) ==
  IF S = {} THEN <<>>
  ELSE LET m == CHOOSE x \in S : \A y \in S : x <= y
       IN  <<m>> \o Ascending(S \ {m})

\* send_campaign_task reads campaign.recipients and keeps the active ones
DispatchLoad(wk) ==
  /\ worker[wk].pc = "load"
  /\ LET w == LazyLoad(worker[wk], Store)
         act == Ascending({r \in w.coll : IsActive(w.identity[r])})
     IN  worker' = [worker EXCEPT ![wk] =
           [w EXCEPT !.active = act,
                     !.readOptOut = {r \in w.coll : recipients[r].opt_out},
                     !.newStatus = IF act = <<>> THEN "sent_no_recipients" ELSE "sent",
                     !.pc = IF act = <<>> THEN "commit" ELSE "send"]]
  /\ UNCHANGED <<recipients, campaigns, links, queue, req, resp, log, channel, chanFails, served, store0, groups, peer>>

\* worker.py binds no name `notifiers`: it imports the package `notifications`,
\* whose `notifiers` is a list, and evaluating notifiers["email"] raises
notifiersBound == "EmailNotifier"
notifiers == "NameError"

\* one pass of the loop `for recipient in active_recipients`: the send raises
\* before the channel is reached, or the channel is invoked and fails or not;
\* either exception is caught, recorded and the loop goes on
DispatchSend(wk) ==
  /\ worker[wk].pc = "send"
  /\ LET w == worker[wk]
         rid == w.active[w.i]
         to == recipients[rid].email
         invoked == notifiers /= "NameError"
         failed == ~invoked \/ to \in chanFails
     IN  /\ channel' = IF invoked
                       THEN Append(channel, [to |-> to, subject |-> campaigns[w.cid].title,
                                             body |-> campaigns[w.cid].message,
                                             optedOut |-> recipients[rid].opt_out])
                       ELSE channel
         /\ worker' = [worker EXCEPT ![wk] =
              [w EXCEPT !.attempted = @ \cup {rid},
                        !.invoked = IF invoked THEN Append(@, rid) ELSE @,
                        !.lateOptOut = IF recipients[rid].opt_out THEN @ \cup {rid} ELSE @,
                        !.sent_count = IF failed THEN @ ELSE @ + 1,
                        !.error_count = IF failed THEN @ + 1 ELSE @,
                        !.errors = IF failed THEN Append(@, to) ELSE @,
                        !.i = @ + 1,
                        !.pc = IF w.i = Len(w.active) THEN "commit" ELSE "send"]]
  /\ UNCHANGED <<recipients, campaigns, links, queue, req, resp, log, chanFails, served, store0, groups, peer>>

\* campaign.status = "sent" or "sent_no_recipients"; db.commit(); return
DispatchCommit(wk) ==
  /\ worker[wk].pc = "commit"
  /\ worker[wk].kind = "send_campaign"
  /\ LET w == worker[wk]
     IN  /\ campaigns' = SetStatus(campaigns, w.cid, w.loadedStatus, w.newStatus)
         /\ log' = Append(log, Outcome(w, IF w.active = <<>> THEN "completed_no_recipients"
                                          ELSE "completed",
                                       {}, LoadRecipients(links, w.cid)))
  /\ worker' = [worker EXCEPT ![wk] = IdleWorker]
  /\ UNCHANGED <<recipients, links, queue, req, resp, channel, chanFails, served, store0, groups, peer>>

\* ------------------------------------------------- directory operations
\* the first statement of opt_out_recipient, opt_in_recipient and
\* get_or_create_recipient: the query by email
\* Recipient(email=email, name=name, opt_out=optOut) added to the table
InsertNamed(table, email, name, optOut) ==
  Append(table, [NewRecipient(email, optOut) EXCEPT !.name = name])

\* str(e) of the IntegrityError raised for a second row with the same email,
\* word by word: the message of PostgreSQL, the database of database.py
IntegrityMessageOther == <<"Duplicate", "entry", "for", "key">>
IntegrityMessage == <<"duplicate", "key", "value", "violates", "unique", "constraint">>

\* str.lower()
Lower(word) ==
  CASE word = "UNIQUE" -> "unique"
    [] word = "Duplicate" -> "duplicate"
    [] OTHER -> word

\* phrase in message.lower()
Contains(message, phrase) ==
  \E k \in 0..(Len(message) - Len(phrase)) :
     \A j \in DOMAIN phrase : Lower(message[k + j]) = phrase[j]

\* get_or_create_recipient, except IntegrityError: DuplicateError when the
\* message names a unique constraint, DatabaseError otherwise
CreateError(message) ==
  IF Contains(message, <<"unique", "constraint">>) THEN "DuplicateError"
  ELSE "DatabaseError"

DirectoryQuery(op, email) ==
  LET rid == QueryRecipient(recipients, email)
  IN  [NoRequest EXCEPT !.op = op, !.email = email, !.found = rid,
                        !.loaded = IF rid = 0 THEN FALSE ELSE recipients[rid].opt_out]

\* their commit: an UPDATE of the row found, or the INSERT of a new row, which
\* the unique constraint on email may refuse
DirectoryCommit(optOut, error) ==
  IF req.found /= 0
  THEN /\ recipients' = [recipients EXCEPT ![req.found].opt_out =
                           FlushAttr(req.loaded, optOut, @)]
       /\ resp' = Response(req, "ok")
  ELSE IF UniqueViolation(recipients, <<req.email>>)
       THEN /\ UNCHANGED recipients
            /\ resp' = Response(req, error)
       ELSE /\ recipients' = InsertNamed(recipients, req.email, req.name, optOut)
            /\ resp' = Response(req, "ok")

OptOutQuery(email) ==
  /\ req.op = "none"
  /\ served < MaxRequests
  /\ served' = served + 1
  /\ req' = DirectoryQuery("opt_out_recipient", email)
  /\ UNCHANGED <<recipients, campaigns, links, queue, worker, resp, log, channel, chanFails, store0, groups, peer>>

OptOutCommitUnlinks ==
  /\ req.op = "opt_out_recipient"
  /\ DirectoryCommit(TRUE, "RecipientError")
  /\ req' = NoRequest
  /\ links' = [p \in {q \in DOMAIN links : q[2] /= req.found} |-> links[p]]
  /\ UNCHANGED <<campaigns, queue, worker, log, channel, chanFails, served, store0, groups, peer>>

OptOutCommit ==
  /\ req.op = "opt_out_recipient"
  /\ DirectoryCommit(TRUE, "RecipientError")
  /\ req' = NoRequest
  /\ UNCHANGED <<campaigns, links, queue, worker, log, channel, chanFails, served, store0, groups, peer>>

OptInQuery(email) ==
  /\ req.op = "none"
  /\ served < MaxRequests
  /\ served' = served + 1
  /\ req' = DirectoryQuery("opt_in_recipient", email)
  /\ UNCHANGED <<recipients, campaigns, links, queue, worker, resp, log, channel, chanFails, store0, groups, peer>>

OptInCommit ==
  /\ req.op = "opt_in_recipient"
  /\ DirectoryCommit(FALSE, "RecipientError")
  /\ req' = NoRequest
  /\ UNCHANGED <<campaigns, links, queue, worker, log, channel, chanFails, served, store0, groups, peer>>

\* get_or_create_recipient returns the recipient it finds, without a commit
GetOrCreateQuery(email, name) ==
  /\ req.op = "none"
  /\ served < MaxRequests
  /\ served' = served + 1
  /\ LET q == [DirectoryQuery("get_or_create_recipient", email) EXCEPT !.name = name]
     IN  IF q.found /= 0
         THEN /\ resp' = Response(q, "ok")
              /\ UNCHANGED req
         ELSE /\ req' = q
              /\ UNCHANGED resp
  /\ UNCHANGED <<recipients, campaigns, links, queue, worker, log, channel, chanFails, store0, groups, peer>>

GetOrCreateCommit ==
  /\ req.op = "get_or_create_recipient"
  /\ DirectoryCommit(FALSE, CreateError(IntegrityMessage))
  /\ req' = NoRequest
  /\ UNCHANGED <<campaigns, links, queue, worker, log, channel, chanFails, served, store0, groups, peer>>

\* get_or_create_recipient called by a second client while the first one's
\* request is in flight
PeerGetOrCreateQuery(email, name) ==
  /\ peer.req.op = "none" /\ peer.resp.op = "none"
  /\ LET q == [DirectoryQuery("get_or_create_recipient", email) EXCEPT !.name = name]
     IN  peer' = IF q.found /= 0
                 THEN [req |-> NoRequest, resp |-> Response(q, "ok")]
                 ELSE [req |-> q, resp |-> NoResponse]
  /\ UNCHANGED <<recipients, campaigns, links, queue, worker, req, resp, served, log, channel, chanFails, store0, groups>>

PeerGetOrCreateCommit ==
  /\ peer.req.op = "get_or_create_recipient"
  /\ IF UniqueViolation(recipients, <<peer.req.email>>)
     THEN /\ UNCHANGED recipients
          /\ peer' = [req |-> NoRequest,
                      resp |-> Response(peer.req, CreateError(IntegrityMessage))]
     ELSE /\ recipients' = InsertNamed(recipients, peer.req.email, peer.req.name, FALSE)
          /\ peer' = [req |-> NoRequest, resp |-> Response(peer.req, "ok")]
  /\ UNCHANGED <<campaigns, links, queue, worker, req, resp, served, log, channel, chanFails, store0, groups>>

\* the create_recipient endpoint, after get_or_create_recipient has returned
\* a recipient: a group_id in the request body is assigned to it and
\* committed; the foreign key refuses the id of a missing group
CreateRecipientGroup(gid) ==
  /\ req = NoRequest
  /\ resp.op = "get_or_create_recipient" /\ resp.status = "ok" /\ resp.gid = NoGroup
  /\ LET rid == QueryRecipient(recipients, resp.email)
     IN  IF gid \in DOMAIN groups
         THEN /\ recipients' = [recipients EXCEPT ![rid].group_id = gid]
              /\ resp' = [resp EXCEPT !.gid = gid]
         ELSE /\ UNCHANGED recipients
              /\ resp' = [resp EXCEPT !.gid = gid, !.status = "IntegrityError"]
  /\ UNCHANGED <<campaigns, links, queue, worker, req, served, log, channel, chanFails, store0, groups, peer>>

\* ------------------------------------------- recipient and group updates
\* db.query(Recipient).filter(Recipient.id == rid).first(): 0 is None
QueryRecipientById(rid) == IF rid \in DOMAIN recipients THEN rid ELSE 0

\* db.query(Group).filter(Group.id == gid).first(): 0 is None
QueryGroupAny(gid) == IF groups = <<>> THEN 0 ELSE 1
QueryGroup(gid) == IF gid \in DOMAIN groups THEN gid ELSE 0

\* update_recipient: the recipient query and, when a group_id is passed, the
\* group query; NotFoundError is raised to the caller with no rollback, the
\* name assigned before the group query stays pending in the session, and
\* the session is closed at the end of the request.  NoName, NoGroup and
\* "keep" are None
UpdateRecipientQuery(rid, name, gid, optOut) ==
  /\ req.op = "none"
  /\ served < MaxRequests
  /\ served' = served + 1
  /\ LET r == [NoRequest EXCEPT !.op = "update_recipient", !.cid = rid, !.name = name,
                                !.gid = gid, !.optOut = optOut,
                                !.found = QueryRecipientById(rid)]
     IN  IF r.found = 0 \/ (gid /= NoGroup /\ QueryGroup(gid) = 0)
         THEN /\ resp' = Response(r, "NotFoundError")
              /\ UNCHANGED req
         ELSE /\ req' = [r EXCEPT !.row = recipients[r.found]]
              /\ UNCHANGED resp
  /\ UNCHANGED <<recipients, campaigns, links, queue, worker, log, channel, chanFails, store0, groups, peer>>

\* update_recipient: db.commit() writes the attributes that were assigned
UpdateRecipientCommit ==
  /\ req.op = "update_recipient"
  /\ LET cur == recipients[req.found]
     IN  recipients' = [recipients EXCEPT ![req.found] =
           [email |-> cur.email,
            name |-> IF req.name = NoName THEN cur.name
                     ELSE FlushAttr(req.row.name, req.name, cur.name),
            group_id |-> IF req.gid = NoGroup THEN cur.group_id
                         ELSE FlushAttr(req.row.group_id, req.gid, cur.group_id),
            opt_out |-> IF req.optOut = "keep" THEN cur.opt_out
                        ELSE FlushAttr(req.row.opt_out, req.optOut = "out", cur.opt_out)]]
  /\ resp' = Response(req, "ok")
  /\ req' = NoRequest
  /\ UNCHANGED <<campaigns, links, queue, worker, log, channel, chanFails, served, store0, groups, peer>>

\* update_group: the group query
UpdateGroupQuery(gid, name) ==
  /\ req.op = "none"
  /\ served < MaxRequests
  /\ served' = served + 1
  /\ LET r == [NoRequest EXCEPT !.op = "update_group", !.gid = gid, !.name = name,
                                !.found = QueryGroup(gid)]
     IN  IF r.found = 0
         THEN /\ resp' = Response(r, "NotFoundError")
              /\ UNCHANGED req
         ELSE /\ req' = [r EXCEPT !.status = groups[r.found].name]
              /\ UNCHANGED resp
  /\ UNCHANGED <<recipients, campaigns, links, queue, worker, log, channel, chanFails, store0, groups, peer>>

\* update_group: db.commit(); Group.name is unique
UpdateGroupCommit ==
  /\ req.op = "update_group"
  /\ LET new == IF req.name = NoName THEN groups[req.found].name
                ELSE FlushAttr(req.status, req.name, groups[req.found].name)
     IN  IF \E g \in DOMAIN groups : g /= req.found /\ groups[g].name = new
         THEN /\ UNCHANGED groups
              /\ resp' = Response(req, CreateError(IntegrityMessage))
         ELSE /\ groups' = [groups EXCEPT ![req.found].name = new]
              /\ resp' = Response(req, "ok")
  /\ req' = NoRequest
  /\ UNCHANGED <<recipients, campaigns, links, queue, worker, log, channel, chanFails, served, store0, peer>>

\* ------------------------------------------------ adding recipients to a group
\* recipient.group_id = group_id, written by the next commit of the session
AssignGroup(table, rids, gid) ==
  [r \in DOMAIN table |->
     IF r \in rids THEN [table[r] EXCEPT !.group_id = gid] ELSE table[r]]

\* if not recipient.opt_out: the group is assigned and the recipient returned
KeepsEveryone(optOut) == TRUE
InGroup(optOut) == ~optOut

\* add_recipients_to_group_patch: the group query
PatchQuery(gid, emails) ==
  /\ req.op = "none"
  /\ served < MaxRequests
  /\ served' = served + 1
  /\ LET r == [NoRequest EXCEPT !.op = "add_recipients_to_group_patch", !.gid = gid,
                                !.emails = emails, !.found = QueryGroup(gid), !.i = 1,
                                !.pc = IF emails = <<>> THEN "commit" ELSE "lookup"]
     IN  IF r.found = 0
         THEN /\ resp' = Response(r, "NotFoundError")
              /\ UNCHANGED req
         ELSE /\ req' = r
              /\ UNCHANGED resp
  /\ UNCHANGED <<recipients, campaigns, links, queue, worker, log, channel, chanFails, store0, groups, peer>>

\* the end of one pass of `for email in recipient_emails`, for the recipient rid
PatchPass(r, rid, optOut) ==
  [r EXCEPT !.assigned = IF InGroup(optOut) THEN @ \cup {rid} ELSE @,
            !.returned = IF InGroup(optOut) THEN Append(@, rid) ELSE @,
            !.i = @ + 1,
            !.pc = IF r.i = Len(r.emails) THEN "commit" ELSE "lookup"]

\* one pass: the query of get_or_create_recipient finds the recipient, or not
PatchLookup ==
  /\ req.op = "add_recipients_to_group_patch" /\ req.pc = "lookup"
  /\ LET rid == QueryRecipient(recipients, req.emails[req.i])
     IN  req' = IF rid = 0 THEN [req EXCEPT !.pc = "insert"]
                ELSE PatchPass(req, rid, recipients[rid].opt_out)
  /\ UNCHANGED <<recipients, campaigns, links, queue, worker, resp, served, log, channel, chanFails, store0, groups, peer>>

\* one pass, for an email without Recipient: get_or_create_recipient adds it
\* and commits, which also writes the groups assigned so far; when the
\* commit is refused it rolls back and raises, and the caller raises
\* GroupError
PatchInsert ==
  /\ req.op = "add_recipients_to_group_patch" /\ req.pc = "insert"
  /\ LET email == req.emails[req.i]
     IN  IF UniqueViolation(recipients, <<email>>)
         THEN /\ UNCHANGED recipients
              /\ resp' = Response([req EXCEPT !.returned = <<>>], "GroupError")
              /\ req' = NoRequest
         ELSE /\ recipients' = AssignGroup(InsertNamed(recipients, email, NoName, FALSE),
                                           req.assigned, req.gid)
              /\ req' = PatchPass([req EXCEPT !.assigned = {}], Len(recipients) + 1, FALSE)
              /\ UNCHANGED resp
  /\ UNCHANGED <<campaigns, links, queue, worker, served, log, channel, chanFails, store0, groups, peer>>

\* add_recipients_to_group_patch: db.commit(); return recipients
PatchCommit ==
  /\ req.op = "add_recipients_to_group_patch" /\ req.pc = "commit"
  /\ recipients' = AssignGroup(recipients, req.assigned, req.gid)
  /\ resp' = Response(req, "ok")
  /\ req' = NoRequest
  /\ UNCHANGED <<campaigns, links, queue, worker, served, log, channel, chanFails, store0, groups, peer>>

\* ------------------------------------------------------ campaign requests
Message(kind, cid, emails) == [kind |-> kind, cid |-> cid, emails |-> emails, n |-> 0]

\* create_campaign: the campaign is added and committed, without recipients
CreateCampaignAdd(emails) ==
  /\ req.op = "none"
  /\ Len(campaigns) < MaxCampaigns
  /\ req' = [NoRequest EXCEPT !.op = "create_campaign", !.cid = Len(campaigns) + 1,
                              !.emails = emails]
  /\ UNCHANGED <<recipients, campaigns, links, queue, worker, resp, log, channel, chanFails, served, store0, groups, peer>>

CreateCampaignCommit(emails) ==
  /\ req.op = "none"
  /\ Len(campaigns) < MaxCampaigns
  /\ campaigns' = Append(campaigns, NewCampaign("Sale", "50% off"))
  /\ req' = [NoRequest EXCEPT !.op = "create_campaign", !.cid = Len(campaigns) + 1,
                              !.emails = emails]
  /\ UNCHANGED <<recipients, links, queue, worker, resp, log, channel, chanFails, served, store0, groups, peer>>

\* create_campaign: process_recipients_task.delay(db_campaign.id, emails);
\* the response is the campaign, without the emails
CreateCampaignEnqueue ==
  /\ req.op = "create_campaign"
  /\ queue' = Append(queue, Message("process_recipients", req.cid, req.emails))
  /\ resp' = Response([req EXCEPT !.emails = <<>>], "ok")
  /\ req' = NoRequest
  /\ UNCHANGED <<recipients, campaigns, links, worker, log, channel, chanFails, served, store0, groups, peer>>

Sends == {m \in DOMAIN queue : queue[m].kind = "send_campaign"}

\* send_campaign: the campaign query for req.id, then
\* send_campaign_task.delay(campaign.id) for the campaign found
SendCampaignQuery(cid) ==
  /\ req.op = "none"
  /\ Cardinality(Sends) < MaxSends
  /\ LET c == QueryCampaign(cid)
         r == [NoRequest EXCEPT !.op = "send_campaign", !.cid = cid, !.found = c]
     IN  IF c = 0
         THEN /\ resp' = Response(r, "NotFoundError")
              /\ UNCHANGED <<req, queue>>
         ELSE /\ queue' = Append(queue, Message("send_campaign", c, <<>>))
              /\ req' = [r EXCEPT !.status = campaigns[c].status]
              /\ UNCHANGED resp
  /\ UNCHANGED <<recipients, campaigns, links, worker, log, channel, chanFails, served, store0, groups, peer>>

\* send_campaign: campaign.status = "queued"; db.commit()
SendCampaignCommit ==
  /\ req.op = "send_campaign"
  /\ campaigns' = SetStatus(campaigns, req.found, req.status, "queued")
  /\ resp' = Response(req, "queued")
  /\ req' = NoRequest
  /\ UNCHANGED <<recipients, links, queue, worker, log, channel, chanFails, served, store0, groups, peer>>

\* ------------------------------------------------- specification: reconcile
\* stores the program can be in: one recipient row per email, at most one
\* link row per recipient (a second row needs two racing tasks)
ValidTables ==
  {t \in UNION {[1..n -> [email : Emails, opt_out : BOOLEAN,
                           group_id : {NoGroup} \cup Groups, name : {NoName}]] :
                n \in 0..Cardinality(Emails)} :
     \A i, j \in DOMAIN t : i /= j => t[i].email /= t[j].email}

LinksOf(cid, rids) == [p \in {<<cid, r>> : r \in rids} |-> 1]

TypeOK ==
  /\ \A r \in RowIds : recipients[r].email \in Emails /\ recipients[r].opt_out \in BOOLEAN
  /\ \A wk \in Workers : worker[wk].pc \in {"idle", "recipients", "commit", "load", "send"}

InitReconcile ==
  /\ recipients \in ValidTables
  /\ campaigns = <<NewCampaign("Sale", "50% off")>>
  /\ \E rids \in SUBSET RowIds : links = LinksOf(1, rids)
  /\ \E l \in EmailLists :
        queue = <<Message("process_recipients", 1, l)>>
  /\ worker = [wk \in Workers |-> IdleWorker]
  /\ req = NoRequest
  /\ resp = NoResponse
  /\ served = 0
  /\ log = <<>>
  /\ channel = <<>>
  /\ chanFails = {}
  /\ store0 = Store
  /\ groups = GroupTable
  /\ peer = NoPeer

NextReconcile ==
  \/ \E wk \in Workers : \E m \in DOMAIN queue : Deliver(wk, m)
  \/ \E wk \in Workers : ReconcileStep(wk)
  \/ \E wk \in Workers : ReconcileCommit(wk)

SpecReconcile == InitReconcile /\ [][NextReconcile]_vars

\* -------------------------------------------------- specification: dispatch
\* a campaign with linked recipients, its send job queued, and opt-out
\* requests arriving while the job runs
InitDispatch ==
  /\ recipients \in {t \in ValidTables : \A r \in DOMAIN t : t[r].group_id = NoGroup}
  /\ campaigns = <<[NewCampaign("Sale", "50% off") EXCEPT !.status = "queued"]>>
  /\ \E rids \in SUBSET RowIds : links = LinksOf(1, rids)
  /\ queue = <<Message("send_campaign", 1, <<>>)>>
  /\ worker = [wk \in Workers |-> IdleWorker]
  /\ req = NoRequest
  /\ resp = NoResponse
  /\ served = 0
  /\ log = <<>>
  /\ channel = <<>>
  /\ chanFails \in SUBSET Emails
  /\ store0 = Store
  /\ groups = GroupTable
  /\ peer = NoPeer

NextDispatch ==
  \/ \E wk \in Workers : \E m \in DOMAIN queue : Deliver(wk, m)
  \/ \E wk \in Workers : DispatchLoad(wk)
  \/ \E wk \in Workers : DispatchSend(wk)
  \/ \E wk \in Workers : DispatchCommit(wk)
  \/ \E e \in Emails : OptOutQuery(e)
  \/ OptOutCommit

SpecDispatch == InitDispatch /\ [][NextDispatch]_vars

\* ------------------------------------------------- specification: directory
\* an empty directory, a campaign, and its reconcile job running while
\* recipients are created, opted out and opted in through the request path
InitDirectory ==
  /\ recipients = <<>>
  /\ campaigns = <<NewCampaign("Sale", "50% off")>>
  /\ links = LinksOf(1, {})
  /\ \E l \in EmailLists :
        queue = <<Message("process_recipients", 1, l)>>
  /\ worker = [wk \in Workers |-> IdleWorker]
  /\ req = NoRequest
  /\ resp = NoResponse
  /\ served = 0
  /\ log = <<>>
  /\ channel = <<>>
  /\ chanFails = {}
  /\ store0 = Store
  /\ groups = GroupTable
  /\ peer = NoPeer

NextDirectory ==
  \/ \E wk \in Workers : \E m \in DOMAIN queue : Deliver(wk, m)
  \/ \E wk \in Workers : ReconcileStep(wk)
  \/ \E wk \in Workers : ReconcileCommit(wk)
  \/ \E e \in Emails : OptOutQuery(e)
  \/ OptOutCommit
  \/ \E e \in Emails : OptInQuery(e)
  \/ OptInCommit
  \/ \E e \in Emails : GetOrCreateQuery(e, NoName)
  \/ GetOrCreateCommit

SpecDirectory == InitDirectory /\ [][NextDirectory]_vars

\* ------------------------------------------------ specification: sending
\* a campaign whose recipients have been processed, and send requests for it
\* arriving on the request path while the workers run the jobs they enqueue
InitSend ==
  /\ recipients \in {t \in ValidTables : \A r \in DOMAIN t : t[r].group_id = NoGroup}
  /\ campaigns = <<[NewCampaign("Sale", "50% off") EXCEPT !.status = "recipients_processed"]>>
  /\ \E rids \in SUBSET RowIds : links = LinksOf(1, rids)
  /\ queue = <<>>
  /\ worker = [wk \in Workers |-> IdleWorker]
  /\ req = NoRequest
  /\ resp = NoResponse
  /\ served = 0
  /\ log = <<>>
  /\ channel = <<>>
  /\ chanFails \in SUBSET Emails
  /\ store0 = Store
  /\ groups = GroupTable
  /\ peer = NoPeer

NextSend ==
  \/ \E c \in 1..(MaxCampaigns + 1) : SendCampaignQuery(c)
  \/ SendCampaignCommit
  \/ \E wk \in Workers : \E m \in DOMAIN queue : Deliver(wk, m)
  \/ \E wk \in Workers : DispatchLoad(wk)
  \/ \E wk \in Workers : DispatchSend(wk)
  \/ \E wk \in Workers : DispatchCommit(wk)

SpecSend == InitSend /\ [][NextSend]_vars

\* --------------------------------------------------- specification: jobs
\* a job of either kind in the queue, for a campaign that exists or for an
\* id that references no campaign
InitJobs ==
  /\ recipients \in {t \in ValidTables : \A r \in DOMAIN t : t[r].group_id = NoGroup}
  /\ campaigns = <<NewCampaign("Sale", "50% off")>>
  /\ \E rids \in SUBSET RowIds : links = LinksOf(1, rids)
  /\ \E c \in 1..(MaxCampaigns + 1) :
        \/ \E l \in EmailLists : queue = <<Message("process_recipients", c, l)>>
        \/ queue = <<Message("send_campaign", c, <<>>)>>
  /\ worker = [wk \in Workers |-> IdleWorker]
  /\ req = NoRequest
  /\ resp = NoResponse
  /\ served = 0
  /\ log = <<>>
  /\ channel = <<>>
  /\ chanFails = {}
  /\ store0 = Store
  /\ groups = GroupTable
  /\ peer = NoPeer

NextJobs ==
  \/ \E wk \in Workers : \E m \in DOMAIN queue : Deliver(wk, m)
  \/ \E wk \in Workers : ReconcileStep(wk)
  \/ \E wk \in Workers : ReconcileCommit(wk)
  \/ \E wk \in Workers : DispatchLoad(wk)
  \/ \E wk \in Workers : DispatchSend(wk)
  \/ \E wk \in Workers : DispatchCommit(wk)

SpecJobs == InitJobs /\ [][NextJobs]_vars

\* ------------------------------------------------ specification: faults
\* the reconcile job of a campaign, run with a store that may fail one
\* statement of each run
InitFaulty ==
  /\ recipients \in {t \in ValidTables : \A r \in DOMAIN t : t[r].group_id = NoGroup}
  /\ campaigns = <<NewCampaign("Sale", "50% off")>>
  /\ \E rids \in SUBSET RowIds : links = LinksOf(1, rids)
  /\ \E l \in EmailLists :
        queue = <<Message("process_recipients", 1, l)>>
  /\ worker = [wk \in Workers |-> IdleWorker]
  /\ req = NoRequest
  /\ resp = NoResponse
  /\ served = 0
  /\ log = <<>>
  /\ channel = <<>>
  /\ chanFails = {}
  /\ store0 = Store
  /\ groups = GroupTable
  /\ peer = NoPeer

NextFaulty ==
  \/ \E wk \in Workers : \E m \in DOMAIN queue : Deliver(wk, m)
  \/ \E wk \in Workers : ReconcileStep(wk)
  \/ \E wk \in Workers : ReconcileFault(wk)
  \/ \E wk \in Workers : ReconcileCommit(wk)

SpecFaulty == InitFaulty /\ [][NextFaulty]_vars

\* ------------------------------------------------ specification: creation
\* campaigns created through create_campaign on a directory that holds some
\* recipients, and their reconcile jobs, with a request path and workers that
\* go on as long as they have a step to take; every message is delivered,
\* once or more
InitCreate ==
  /\ recipients \in {t \in ValidTables : \A r \in DOMAIN t : t[r].group_id = NoGroup}
  /\ campaigns = <<>>
  /\ links = LinksOf(1, {})
  /\ queue = <<>>
  /\ worker = [wk \in Workers |-> IdleWorker]
  /\ req = NoRequest
  /\ resp = NoResponse
  /\ served = 0
  /\ log = <<>>
  /\ channel = <<>>
  /\ chanFails = {}
  /\ store0 = Store
  /\ groups = GroupTable
  /\ peer = NoPeer

NextCreate ==
  \/ \E l \in EmailLists : CreateCampaignCommit(l)
  \/ CreateCampaignEnqueue
  \/ \E wk \in Workers : \E m \in DOMAIN queue : Deliver(wk, m)
  \/ \E wk \in Workers : ReconcileStep(wk)
  \/ \E wk \in Workers : ReconcileCommit(wk)

FairCreate ==
  /\ WF_vars(CreateCampaignEnqueue)
  /\ WF_vars(\E wk \in Workers : \E m \in DOMAIN queue : Deliver(wk, m))
  /\ WF_vars(\E wk \in Workers : ReconcileStep(wk))
  /\ WF_vars(\E wk \in Workers : ReconcileCommit(wk))

SpecCreate == InitCreate /\ [][NextCreate]_vars /\ FairCreate

\* ------------------------------------------------ specification: service
\* the directory service on a directory that holds some recipients, with
\* names and groups: requests served one after the other, and a second
\* client calling get_or_create_recipient while they are in flight
ServiceTables ==
  {t \in UNION {[1..n -> [email : Emails, opt_out : BOOLEAN,
                           group_id : {NoGroup} \cup Groups, name : {NoName, "Bob"}]] :
                n \in 0..Cardinality(Emails)} :
     \A i, j \in DOMAIN t : i /= j => t[i].email /= t[j].email}

InitService ==
  /\ recipients \in ServiceTables
  /\ campaigns = <<>>
  /\ links = LinksOf(1, {})
  /\ queue = <<>>
  /\ worker = [wk \in Workers |-> IdleWorker]
  /\ req = NoRequest
  /\ resp = NoResponse
  /\ served = MaxRequests - 1
  /\ log = <<>>
  /\ channel = <<>>
  /\ chanFails = {}
  /\ store0 = Store
  /\ groups = GroupTable
  /\ peer = NoPeer

NextService ==
  \/ \E e \in Emails : \E n \in {NoName, "Ann"} : GetOrCreateQuery(e, n)
  \/ GetOrCreateCommit
  \/ \E e \in Emails : \E n \in {NoName, "Ann"} : PeerGetOrCreateQuery(e, n)
  \/ PeerGetOrCreateCommit
  \/ \E g \in 1..(Len(GroupTable) + 1) : CreateRecipientGroup(g)
  \/ \E rid \in 1..(Cardinality(Emails) + 1) : \E n \in {NoName, "Ann"} :
        \E g \in {NoGroup} \cup (1..(Len(GroupTable) + 1)) :
           \E o \in {"keep", "out", "in"} : UpdateRecipientQuery(rid, n, g, o)
  \/ UpdateRecipientCommit
  \/ \E g \in 1..(Len(GroupTable) + 1) : \E n \in {NoName} \cup GroupNames :
        UpdateGroupQuery(g, n)
  \/ UpdateGroupCommit
  \/ \E g \in 1..(Len(GroupTable) + 1) : \E l \in EmailLists : PatchQuery(g, l)
  \/ PatchLookup
  \/ PatchInsert
  \/ PatchCommit

SpecService == InitService /\ [][NextService]_vars

\* ------------------------------------------------ specification: race
\* a directory that holds some recipients, a campaign whose reconcile job
\* runs, and two clients that call get_or_create_recipient meanwhile
InitRace ==
  /\ recipients \in ValidTables
  /\ campaigns = <<NewCampaign("Sale", "50% off")>>
  /\ links = LinksOf(1, {})
  /\ \E l \in EmailLists :
        queue = <<Message("process_recipients", 1, l)>>
  /\ worker = [wk \in Workers |-> IdleWorker]
  /\ req = NoRequest
  /\ resp = NoResponse
  /\ served = MaxRequests - 1
  /\ log = <<>>
  /\ channel = <<>>
  /\ chanFails = {}
  /\ store0 = Store
  /\ groups = GroupTable
  /\ peer = NoPeer

NextRace ==
  \/ \E m \in DOMAIN queue : Deliver(1, m)
  \/ ReconcileStep(1)
  \/ ReconcileCommit(1)
  \/ \E e \in Emails : GetOrCreateQuery(e, NoName)
  \/ GetOrCreateCommit
  \/ \E e \in Emails : PeerGetOrCreateQuery(e, NoName)
  \/ PeerGetOrCreateCommit

SpecRace == InitRace /\ [][NextRace]_vars

\* ------------------------------------------------ specification: frame
\* two campaigns with their links, a send job in the queue for one of them,
\* and recipients opting out while the workers run it
FrameStatuses == {"pending", "sent"}

InitFrame ==
  /\ recipients \in {t \in ValidTables : \A r \in DOMAIN t : t[r].group_id = NoGroup}
  /\ \E s1, s2 \in FrameStatuses :
        campaigns = <<[NewCampaign("Sale", "50% off") EXCEPT !.status = s1],
                      [NewCampaign("News", "Hello") EXCEPT !.status = s2]>>
  /\ \E r1, r2 \in SUBSET RowIds :
        links = [p \in {<<1, r>> : r \in r1} \cup {<<2, r>> : r \in r2} |-> 1]
  /\ \E c \in 1..2 : queue = <<Message("send_campaign", c, <<>>)>>
  /\ worker = [wk \in Workers |-> IdleWorker]
  /\ req = NoRequest
  /\ resp = NoResponse
  /\ served = MaxRequests - 1
  /\ log = <<>>
  /\ channel = <<>>
  /\ chanFails = {}
  /\ store0 = Store
  /\ groups = GroupTable
  /\ peer = NoPeer

NextFrame ==
  \/ \E wk \in Workers : \E m \in DOMAIN queue : Deliver(wk, m)
  \/ \E wk \in Workers : DispatchLoad(wk)
  \/ \E wk \in Workers : DispatchSend(wk)
  \/ \E wk \in Workers : DispatchCommit(wk)
  \/ \E e \in Emails : OptOutQuery(e)
  \/ OptOutCommit

SpecFrame == InitFrame /\ [][NextFrame]_vars

\* ------------------------------------------------ specification: the system
\* the state after construction: empty tables, an empty queue, idle workers
Init ==
  /\ recipients = <<>>
  /\ campaigns = <<>>
  /\ links = LinksOf(1, {})
  /\ queue = <<>>
  /\ worker = [wk \in Workers |-> IdleWorker]
  /\ req = NoRequest
  /\ resp = NoResponse
  /\ served = 0
  /\ log = <<>>
  /\ channel = <<>>
  /\ chanFails = {}
  /\ store0 = Store
  /\ groups = GroupTable
  /\ peer = NoPeer

Next ==
  \/ \E l \in EmailLists : CreateCampaignCommit(l)
  \/ CreateCampaignEnqueue
  \/ \E c \in 1..(MaxCampaigns + 1) : SendCampaignQuery(c)
  \/ SendCampaignCommit
  \/ \E e \in Emails : OptOutQuery(e)
  \/ OptOutCommit
  \/ \E e \in Emails : OptInQuery(e)
  \/ OptInCommit
  \/ \E e \in Emails : GetOrCreateQuery(e, NoName)
  \/ GetOrCreateCommit
  \/ \E wk \in Workers : \E m \in DOMAIN queue : Deliver(wk, m)
  \/ \E wk \in Workers : ReconcileStep(wk)
  \/ \E wk \in Workers : ReconcileCommit(wk)
  \/ \E wk \in Workers : DispatchLoad(wk)
  \/ \E wk \in Workers : DispatchSend(wk)
  \/ \E wk \in Workers : DispatchCommit(wk)

Spec == Init /\ [][Next]_vars

\* ----------------------------------------------------- claims: reconcile
Job == queue[1]
Repeats(l) == \E i, j \in DOMAIN l : i /= j /\ l[i] = l[j]
RowsOf(table, email) == {r \in DOMAIN table : table[r].email = email}
Unseen(email) == RowsOf(store0.recipients, email) = {}
\* run k+1 of the job began after run k had ended, and ended next
InSequence(k) == k + 1 \in DOMAIN log /\ log[k + 1].prior = k
\* the two runs of the job overlapped
Overlapped == Len(log) >= 2 /\ log[2].prior = 0

\* C1: a second run of the reconcile job, right after the first and on the
\* same list, leaves the campaign linked to the same recipients and reports
\* processed_count = 0.
C1_SecondRunLinksNothing ==
  \A k \in DOMAIN log : InSequence(k) =>
     /\ log[k + 1].status = "completed"
     /\ log[k + 1].processed_count = 0
     /\ log[k + 1].linked = log[k].linked

\* C1 where the first run returned a result: then the second does too, links
\* nothing and reports 0
C1_AfterCompletedRun ==
  \A k \in DOMAIN log : (InSequence(k) /\ log[k].status = "completed") =>
     /\ log[k + 1].status = "completed"
     /\ log[k + 1].processed_count = 0
     /\ log[k + 1].linked = log[k].linked

\* C2: the association table never holds two rows for one (campaign,
\* recipient) pair.
C2_NoDuplicateLink == \A p \in DOMAIN links : links[p] <= 1

\* C3: two overlapping runs of the same reconcile job end with the campaign
\* linked to the recipients one run alone would have linked.
C3_OverlappedRunsConverge ==
  (Len(log) = 2 /\ Overlapped) =>
     LoadRecipients(links, Job.cid) =
       LoadRecipients(RunAlone(store0, Job.cid, Job.emails).store.links, Job.cid)

C3_Witness ==
  /\ Len(log) = 2 /\ Overlapped
  /\ log[1].status = "completed" /\ log[2].status = "CampaignError"
  /\ log[2].processed_count > 0
  /\ LoadRecipients(links, Job.cid) /= LoadRecipients(store0.links, Job.cid)

\* C5: two overlapping runs that both meet an email without a Recipient both
\* return a result, and one Recipient exists for that email.
C5_RaceOnNewEmailTolerated ==
  (Len(log) = 2 /\ Overlapped /\ ~Repeats(Job.emails)) =>
     \A i \in DOMAIN Job.emails : Unseen(Job.emails[i]) =>
        /\ log[1].status = "completed"
        /\ log[2].status = "completed"
        /\ Cardinality(RowsOf(recipients, Job.emails[i])) = 1

\* C6: a run alone on a list that repeats an email returns a result, leaves
\* one Recipient for the email, links it once and counts it once.
C6_RepeatedEmailOnce ==
  (Len(log) = 1 /\ Job.n = 1 /\ Repeats(Job.emails)) =>
     /\ log[1].status = "completed"
     /\ campaigns[Job.cid].status = "recipients_processed"
     /\ log[1].processed_count = Cardinality(log[1].inserted)
     /\ \A i \in DOMAIN Job.emails :
          /\ Cardinality(RowsOf(recipients, Job.emails[i])) = 1
          /\ \A r \in RowsOf(recipients, Job.emails[i]) :
               LinkCount(links, Job.cid, r) <= 1

\* C7: a run links no recipient it found opted out, and skipped_count is the
\* number of emails of the list whose recipient is opted out, with or
\* without a group.
OptedOutAt(l) ==
  {i \in DOMAIN l : \E r \in RowsOf(recipients, l[i]) : recipients[r].opt_out}

C7_OptedOutSkipped ==
  \A k \in DOMAIN log : log[k].kind = "process_recipients" =>
     /\ \A r \in log[k].inserted : ~recipients[r].opt_out
     /\ \A r \in log[k].skippedIds : r \notin log[k].inserted
     /\ log[k].skippedIds = {r \in RowIds : recipients[r].opt_out
                                /\ \E i \in DOMAIN log[k].emails :
                                      recipients[r].email = log[k].emails[i]}
     /\ log[k].skipped_count = Cardinality(OptedOutAt(log[k].emails))

C7_Witness ==
  \E k \in DOMAIN log :
     /\ log[k].status = "completed"
     /\ log[k].skipped_count = 2
     /\ log[k].inserted /= {}
     /\ \E r \in log[k].skippedIds :
          /\ recipients[r].group_id /= NoGroup
          /\ LinkCount(links, log[k].cid, r) = 0

\* ----------------------------------------------------- claims: directory
\* C4: the recipients table never holds two rows with the same email.
C4_OneRecipientPerEmail ==
  \A e \in Emails : Cardinality(RowsOf(recipients, e)) <= 1

\* a request and a task run have each lost a race on a new email, and
\* each email has its row
C4_Witness ==
  /\ resp.status \in {"DuplicateError", "RecipientError"}
  /\ \E k \in DOMAIN log : log[k].status = "CampaignError"
  /\ \A e \in Emails : Cardinality(RowsOf(recipients, e)) = 1

\* ------------------------------------------------------ claims: dispatch
\* C8: the dispatch job attempts no send to a recipient that was opted out
\* when the job read the campaign's recipients.
C8_NoAttemptForOptedOut ==
  \A wk \in Workers : worker[wk].attempted \cap worker[wk].readOptOut = {}

\* a job has made all its attempts, and had read a recipient that was linked
\* while active and had opted out since
C8_Witness ==
  \E wk \in Workers :
     /\ worker[wk].kind = "send_campaign" /\ worker[wk].pc = "commit"
     /\ worker[wk].attempted /= {}
     /\ \E r \in worker[wk].readOptOut :
          r \in DOMAIN store0.recipients /\ ~store0.recipients[r].opt_out

ChannelFailures(active) ==
  Cardinality({i \in DOMAIN active : recipients[active[i]].email \in chanFails})

C10_PartialFailureCounts ==
  \A k \in DOMAIN log :
     (log[k].kind = "send_campaign" /\ log[k].status = "completed") =>
        /\ log[k].sent_count = Len(log[k].active) - ChannelFailures(log[k].active)
        /\ log[k].error_count = ChannelFailures(log[k].active)
        /\ Len(log[k].errors) = ChannelFailures(log[k].active)

\* C11: a dispatch job that had active recipients has invoked the channel's
\* send exactly once for each of them, in a pass of its own, with the
\* recipient's email, the campaign's title and the campaign's message.
C11_ChannelInvokedOncePerActive ==
  \A k \in DOMAIN log :
     (log[k].kind = "send_campaign" /\ log[k].status = "completed") =>
        \A j \in DOMAIN log[k].active :
           /\ Cardinality({i \in DOMAIN log[k].invoked :
                             log[k].invoked[i] = log[k].active[j]}) = 1
           /\ \E i \in DOMAIN channel :
                /\ channel[i].to = recipients[log[k].active[j]].email
                /\ channel[i].subject = campaigns[log[k].cid].title
                /\ channel[i].body = campaigns[log[k].cid].message

\* a worker ends its dispatch job in this step
DispatchEnds(wk) ==
  /\ worker[wk].kind = "send_campaign" /\ worker[wk].pc = "commit"
  /\ worker'[wk].pc = "idle"

\* C12: a dispatch job that had active recipients ends with the campaign's
\* status sent and returns its result, however many of its sends failed.
C12_DispatchEndsSent ==
  [][\A wk \in Workers :
       (DispatchEnds(wk) /\ worker[wk].active /= <<>>) =>
          /\ campaigns'[worker[wk].cid].status = "sent"
          /\ log'[Len(log')].status = "completed"]_vars

\* C13: a dispatch job that found no active recipient ends with the
\* campaign's status sent_no_recipients, returns sent_count = 0 and
\* error_count = 0, and has not invoked the channel.
C13_NoRecipientsEndsQuietly ==
  [][\A wk \in Workers :
       (DispatchEnds(wk) /\ worker[wk].active = <<>>) =>
          /\ campaigns'[worker[wk].cid].status = "sent_no_recipients"
          /\ log'[Len(log')].status = "completed_no_recipients"
          /\ log'[Len(log')].sent_count = 0
          /\ log'[Len(log')].error_count = 0
          /\ log'[Len(log')].invoked = <<>>
          /\ channel' = channel]_vars

\* C14: a job whose campaign id references no campaign fails with NotFound
\* each time it is run, and the store and the channel stay as they were.
C14_MissingCampaignAborts ==
  (Job.cid \notin DOMAIN campaigns) =>
     /\ Store = store0
     /\ channel = <<>>
     /\ \A wk \in Workers : worker[wk].pc = "idle"
     /\ Len(log) = Job.n
     /\ \A k \in DOMAIN log : log[k].status = "NotFound"

\* a reconcile job for a missing campaign was run twice, on a list with an
\* email that has no Recipient
C14_Witness ==
  /\ Job.cid \notin DOMAIN campaigns
  /\ Job.kind = "process_recipients"
  /\ \E i \in DOMAIN Job.emails : Unseen(Job.emails[i])
  /\ Len(log) = 2
  /\ recipients /= <<>>

\* the list l without its i-th email
Without(l, i) == SubSeq(l, 1, i - 1) \o SubSeq(l, i + 1, Len(l))

\* C15: a reconcile run in which one email failed returns its result with
\* that one email in errors, and has committed the links that a run on the
\* other emails of the list makes.
C15_FailedEmailDoesNotAbort ==
  (Len(log) = 1 /\ Job.n = 1 /\ log[1].faultAt /= 0 /\ ~Repeats(Job.emails)) =>
     /\ log[1].status = "completed"
     /\ log[1].error_count = 1
     /\ log[1].errors = <<Job.emails[log[1].faultAt]>>
     /\ LoadRecipients(links, Job.cid) =
          LoadRecipients(RunAlone(store0, Job.cid,
                                  Without(Job.emails, log[1].faultAt)).store.links, Job.cid)
     /\ campaigns[Job.cid].status = "recipients_processed"

\* a worker ends its reconcile job in this step
ReconcileEnds(wk) ==
  /\ worker[wk].kind = "process_recipients" /\ worker[wk].pc = "commit"
  /\ worker'[wk].pc = "idle"

\* C16: when a reconcile job returns a result, the campaign's status is
\* recipients_processed, whatever the job counted.
C16_ResultMeansProcessed ==
  [][\A wk \in Workers :
       (ReconcileEnds(wk) /\ log'[Len(log')].status = "completed") =>
          campaigns'[worker[wk].cid].status = "recipients_processed"]_vars

Terminal == {"sent", "sent_no_recipients"}

\* C18: no step changes the status of a campaign whose status is sent or
\* sent_no_recipients.
C18_TerminalStatusStays ==
  [][\A c \in DOMAIN campaigns :
       campaigns[c].status \in Terminal =>
          campaigns'[c].status = campaigns[c].status]_vars

\* a dispatch job left the campaign sent_no_recipients and a reconcile job
\* that ended after it left it recipients_processed
C18_ReconcileAfterDispatch ==
  \E j, k \in DOMAIN log :
     /\ j < k
     /\ log[j].status = "completed_no_recipients"
     /\ log[k].kind = "process_recipients" /\ log[k].status = "completed"
     /\ campaigns[log[k].cid].status = "recipients_processed"

\* the dispatch job of campaign c has ended, no run of it is in progress and
\* no reconcile job has ended since
DispatchDone(c) ==
  /\ \A wk \in Workers : worker[wk].kind /= "send_campaign"
  /\ \E k \in DOMAIN log :
       /\ log[k].kind = "send_campaign" /\ log[k].cid = c
       /\ log[k].status \in {"completed", "completed_no_recipients"}
       /\ \A j \in DOMAIN log : j > k => log[j].kind /= "process_recipients"

\* C19: once a send request and the dispatch job it enqueued have both
\* completed, the campaign's status is sent or sent_no_recipients.
C19_QueuedBeforeDispatch ==
  \A c \in DOMAIN campaigns :
     (req.op /= "send_campaign" /\ DispatchDone(c)) =>
        campaigns[c].status \in Terminal

\* C17: the step that ends a reconcile job either writes all that the job
\* made (its new Recipients, one link for each recipient it counted, the
\* status) or, when the job fails, writes nothing; no other step of a job
\* writes to the store.
C17_ReconcileAtomic ==
  [][/\ \A wk \in Workers : ReconcileEnds(wk) =>
          LET w == worker[wk]
              out == log'[Len(log')]
          IN  IF out.status = "completed"
              THEN /\ Cardinality(out.inserted) = w.processed_count
                   /\ recipients' = InsertRecipients(recipients, w.pending, FALSE)
                   /\ links' = InsertLinks(links, w.cid, out.inserted)
                   /\ campaigns'[w.cid].status = "recipients_processed"
              ELSE /\ recipients' = recipients
                   /\ links' = links
                   /\ campaigns' = campaigns
     /\ (\A wk \in Workers : ~ReconcileEnds(wk)) =>
          /\ links' = links
          /\ campaigns' = campaigns
          /\ recipients' /= recipients => req.op /= "none"]_vars

\* a job that had counted two recipients failed at its commit, and the
\* campaign has no link
C17_Witness ==
  /\ \E k \in DOMAIN log :
       /\ log[k].status = "CampaignError"
       /\ log[k].processed_count = 2
       /\ \E r \in RowIds : r \notin LoadRecipients(links, log[k].cid)
  /\ LoadRecipients(links, Job.cid) = {}
  /\ campaigns[Job.cid].status = "pending"

\* C20: every campaign created by create_campaign eventually has a reconcile
\* job that returned its result, and the status recipients_processed.
C20_CreatedCampaignProcessed ==
  \A c \in 1..MaxCampaigns :
     (c \in DOMAIN campaigns) ~>
        /\ c \in DOMAIN campaigns
        /\ campaigns[c].status = "recipients_processed"
        /\ \E k \in DOMAIN log : log[k].cid = c /\ log[k].status = "completed"

\* ------------------------------------------- claims: directory requests
\* C21: opt_in_recipient(email) called after an opt_out_recipient(email) that
\* found no Recipient: the first call has created the record with opt_out
\* true, the second updates that record, and one record is left for the
\* email, with opt_out false.
C21_OptOutThenOptIn ==
  [][(/\ req.op = "opt_in_recipient" /\ req' = NoRequest
      /\ resp.op = "opt_out_recipient" /\ resp.status = "ok"
      /\ resp.found = 0 /\ resp.email = req.email) =>
        /\ RowsOf(recipients, req.email) = {req.found}
        /\ recipients[req.found].opt_out
        /\ Len(recipients') = Len(recipients)
        /\ RowsOf(recipients', req.email) = {req.found}
        /\ ~recipients'[req.found].opt_out
        /\ resp'.status = "ok"]_vars

\* the two requests were the only ones, no job has written, and the opt-in
\* found the record opted out
C21_Witness ==
  /\ served = 2 /\ req = NoRequest
  /\ resp.op = "opt_in_recipient" /\ resp.status = "ok"
  /\ resp.found /= 0 /\ resp.loaded
  /\ Unseen(resp.email)
  /\ \A k \in DOMAIN log : log[k].status /= "completed"
  /\ RowsOf(recipients, resp.email) = {resp.found}
  /\ ~recipients[resp.found].opt_out

\* C22: create_campaign commits a campaign with status pending and no link,
\* and writes no Recipient and no link, before and at its enqueue; the only
\* step that writes a link is the commit of a reconcile job.
C22_OnlyReconcileLinks ==
  [][/\ (req.op = "none" /\ req'.op = "create_campaign") =>
          /\ DOMAIN campaigns' = DOMAIN campaigns \cup {req'.cid}
          /\ req'.cid \notin DOMAIN campaigns
          /\ campaigns'[req'.cid].status = "pending"
          /\ LoadRecipients(links', req'.cid) = {}
          /\ recipients' = recipients /\ links' = links
     /\ (req.op = "create_campaign" /\ req' = NoRequest) =>
          recipients' = recipients /\ links' = links /\ campaigns' = campaigns
     /\ links' /= links => \E wk \in Workers : ReconcileEnds(wk)]_vars

\* create_campaign has returned for a list of emails without Recipients; its
\* job has not run yet, and there is no Recipient and no link
C22_Witness ==
  /\ req = NoRequest /\ resp.op = "create_campaign" /\ resp.status = "ok"
  /\ queue /= <<>> /\ Job.kind = "process_recipients" /\ Job.n = 0
  /\ Len(Job.emails) = MaxListLen
  /\ campaigns[Job.cid].status = "pending"
  /\ recipients = <<>>
  /\ LoadRecipients(links, Job.cid) = {}

\* C23: a send request whose id references no campaign is answered with
\* NotFound, and its step enqueues no job and changes no campaign; no job
\* for a missing campaign is ever in the queue.
C23_SendMissingCampaign ==
  [][/\ (resp' /= resp /\ resp'.op = "send_campaign"
         /\ resp'.cid \notin DOMAIN campaigns) =>
          /\ resp'.status = "NotFoundError"
          /\ queue' = queue
          /\ campaigns' = campaigns
     /\ \A m \in DOMAIN queue' : queue'[m].cid \in DOMAIN campaigns']_vars

\* a send request for a missing campaign has been answered
C23_Witness ==
  /\ req = NoRequest
  /\ resp.op = "send_campaign" /\ resp.status = "NotFoundError"
  /\ resp.cid \notin DOMAIN campaigns
  /\ queue = <<>>
  /\ campaigns = store0.campaigns

\* the recipients of the emails of the list l that are not opted out
ActiveOf(table, l) ==
  {r \in DOMAIN table : ~table[r].opt_out /\ \E i \in DOMAIN l : table[r].email = l[i]}

\* C24: the commit of a reconcile job that returns with error_count = 0
\* leaves the campaign linked to the recipients it was linked to, and to the
\* recipients of the input emails that are not opted out, and to no other;
\* no link row is removed, and every input email has a Recipient.
C24_LinksAreBeforePlusActive ==
  [][\A wk \in Workers :
       (/\ ReconcileEnds(wk)
        /\ log'[Len(log')].status = "completed"
        /\ log'[Len(log')].error_count = 0) =>
          LET w == worker[wk]
          IN  /\ LoadRecipients(links', w.cid) =
                   LoadRecipients(links, w.cid) \cup ActiveOf(recipients', w.emails)
              /\ \A q \in DOMAIN links : LinkCount(links', q[1], q[2]) >= links[q]
              /\ \A i \in DOMAIN w.emails : RowsOf(recipients', w.emails[i]) /= {}]_vars

\* a run alone on a campaign that had a link has linked a recipient it
\* created and skipped an opted-out one
C24_Witness ==
  /\ Len(log) = 1 /\ Job.n = 1
  /\ log[1].status = "completed" /\ log[1].error_count = 0
  /\ log[1].processed_count = 1 /\ log[1].skipped_count = 1
  /\ LoadRecipients(store0.links, Job.cid) /= {}
  /\ Len(recipients) > Len(store0.recipients)
  /\ LoadRecipients(links, Job.cid) =
       LoadRecipients(store0.links, Job.cid) \cup ActiveOf(recipients, Job.emails)

\* ------------------------------------------- claims: the directory service
\* the call that a step of the request path starts: in flight, or answered
Called == IF req'.op /= "none" THEN req' ELSE resp'
Calls(op) == served' = served + 1 /\ Called.op = op
Range(l) == {l[i] : i \in DOMAIN l}

Inserting(answer) == answer.op = "get_or_create_recipient" /\ answer.found = 0

\* C26: a get_or_create_recipient call that found no Recipient for its
\* email is answered with the recipient or with a Duplicate error, and one
\* Recipient exists for the email, whether it raced another such call or
\* the commit of a reconcile job; of two calls that raced on an email one
\* is answered with the recipient and the other with the Duplicate error,
\* or both with the Duplicate error when a job has created the recipient.
C26_RaceSurfacesDuplicate ==
  /\ \A answer \in {resp, peer.resp} :
        Inserting(answer) =>
           /\ Cardinality(RowsOf(recipients, answer.email)) = 1
           /\ answer.status \in {"ok", "DuplicateError"}
  /\ (Inserting(resp) /\ Inserting(peer.resp) /\ resp.email = peer.resp.email) =>
        \/ {resp.status, peer.resp.status} = {"ok", "DuplicateError"}
        \/ /\ {resp.status, peer.resp.status} = {"DuplicateError"}
           /\ \E n \in DOMAIN log : RowsOf(recipients, resp.email) \subseteq log[n].inserted
  /\ \A e \in Emails : Cardinality(RowsOf(recipients, e)) <= 1

\* the request lost the race to the second client
C26_Witness ==
  /\ Inserting(resp) /\ Inserting(peer.resp)
  /\ resp.email = peer.resp.email
  /\ resp.status = "DuplicateError" /\ peer.resp.status = "ok"
  /\ Len(recipients) = Len(store0.recipients) + 1

\* the request lost the race to the commit of the reconcile job
C26_LostToJob ==
  /\ Inserting(resp) /\ resp.status = "DuplicateError"
  /\ peer = NoPeer
  /\ \E n \in DOMAIN log : log[n].status = "completed"
  /\ Cardinality(RowsOf(recipients, resp.email)) = 1

\* C27: add_recipients_to_group_patch on an existing group, when it returns:
\* every input email has a Recipient; those that are not opted out are in
\* the group and are the recipients returned; and no step of the call
\* changes the group of an opted-out recipient.
C27_PatchAddsActiveOnly ==
  [][/\ (req.op = "add_recipients_to_group_patch" /\ req' = NoRequest
         /\ resp'.status = "ok") =>
          /\ \A i \in DOMAIN req.emails : RowsOf(recipients', req.emails[i]) /= {}
          /\ Range(resp'.returned) = ActiveOf(recipients', req.emails)
          /\ \A r \in ActiveOf(recipients', req.emails) :
               recipients'[r].group_id = req.gid
     /\ req.op = "add_recipients_to_group_patch" =>
          \A r \in DOMAIN recipients :
             recipients[r].opt_out =>
                /\ recipients'[r] = recipients[r]
                /\ r \notin Range(req'.returned) /\ r \notin Range(resp'.returned)]_vars

\* the call has created a recipient and put it in the group, and skipped
\* an opted-out recipient of its list that is in no group
C27_Witness ==
  /\ resp.op = "add_recipients_to_group_patch" /\ resp.status = "ok"
  /\ \E r \in Range(resp.returned) :
        r \notin DOMAIN store0.recipients /\ recipients[r].group_id = resp.gid
  /\ \E r \in RowIds :
        /\ recipients[r].opt_out /\ recipients[r].group_id = NoGroup
        /\ \E i \in DOMAIN resp.emails : resp.emails[i] = recipients[r].email

\* the call references a recipient or a group that does not exist
Missing(c) ==
  \/ c.op = "update_recipient"
       /\ (c.cid \notin DOMAIN recipients \/ (c.gid /= NoGroup /\ c.gid \notin DOMAIN groups))
  \/ c.op \in {"update_group", "add_recipients_to_group_patch"}
       /\ c.gid \notin DOMAIN groups

\* C28: update_recipient, update_group and add_recipients_to_group_patch
\* called for a missing recipient or group are answered with NotFound in
\* the step that calls them, with nothing written and nothing left pending.
C28_MissingEntityNotFound ==
  [][(served' = served + 1 /\ Missing(Called)) =>
        /\ req' = NoRequest
        /\ resp'.status = "NotFoundError"
        /\ recipients' = recipients
        /\ groups' = groups]_vars

\* update_recipient was called with a new name for a recipient that exists
\* and with the id of a missing group
C28_Witness ==
  /\ resp.op = "update_recipient" /\ resp.status = "NotFoundError"
  /\ resp.cid \in RowIds /\ resp.gid \notin DOMAIN groups /\ resp.gid /= NoGroup
  /\ resp.name = "Ann" /\ recipients[resp.cid].name = "Bob"
  /\ req = NoRequest
  /\ Store = store0

\* ------------------------------------------------- claims: counts and status
\* the pairs a step adds to the campaign's links
NewLinks(cid) ==
  {r \in DOMAIN recipients' : LinkCount(links', cid, r) > 0 /\ LinkCount(links, cid, r) = 0}

\* C29: when a reconcile job returns a result, processed_count is the number
\* of (campaign, recipient) pairs its commit adds to the campaign's links,
\* and processed_count + skipped_count + error_count is at most the length
\* of the input list.
C29_ProcessedCountsNewLinks ==
  [][\A wk \in Workers :
       (ReconcileEnds(wk) /\ log'[Len(log')].status = "completed") =>
          LET out == log'[Len(log')]
          IN  /\ out.processed_count = Cardinality(NewLinks(out.cid))
              /\ out.processed_count + out.skipped_count + out.error_count
                   <= Len(out.emails)]_vars

\* C29 with the links counted as rows: processed_count is the number of rows
\* the commit inserts in campaign_recipients, one for each recipient the
\* run appended, and the three counts add up to at most the length of the
\* list
C29_CountsRowsInserted ==
  [][\A wk \in Workers :
       (ReconcileEnds(wk) /\ log'[Len(log')].status = "completed") =>
          LET out == log'[Len(log')]
          IN  /\ out.processed_count = Cardinality(out.inserted)
              /\ links' = InsertLinks(links, out.cid, out.inserted)
              /\ out.processed_count + out.skipped_count + out.error_count
                   <= Len(out.emails)]_vars

\* a run has returned processed_count 1 with a row for a pair that was linked
C29_CountedLinkedPair ==
  \E k \in DOMAIN log :
     /\ log[k].status = "completed" /\ log[k].processed_count = 1
     /\ \E r \in log[k].inserted : LinkCount(links, log[k].cid, r) = 2

\* the values the code gives to Campaign.status
Statuses == {"pending", "queued", "recipients_processed", "sent", "sent_no_recipients"}

StatusesValid == \A c \in DOMAIN campaigns : campaigns[c].status \in Statuses

\* a task run ends in this step by raising
JobFails ==
  /\ Len(log') = Len(log) + 1
  /\ log'[Len(log')].status \notin {"completed", "completed_no_recipients"}

\* a request ends in this step with an error
RequestFails ==
  /\ req.op /= "none" \/ served' /= served
  /\ req' = NoRequest
  /\ resp'.status \in {"NotFoundError", "DuplicateError", "DatabaseError", "RecipientError",
                      "GroupError", "IntegrityError"}

C31_TablesOnlyGrow ==
  [][/\ Len(recipients') >= Len(recipients)
     /\ \A r \in DOMAIN recipients : recipients'[r].email = recipients[r].email
     /\ Len(campaigns') >= Len(campaigns)
     /\ \A c \in DOMAIN campaigns :
          /\ campaigns'[c].title = campaigns[c].title
          /\ campaigns'[c].message = campaigns[c].message
     /\ \A p \in DOMAIN links : LinkCount(links', p[1], p[2]) >= links[p]]_vars

\* a recipient a reconcile job linked has opted out since, and is linked
C31_Witness ==
  /\ resp.op = "opt_out_recipient" /\ resp.status = "ok"
  /\ \E r \in RowsOf(recipients, resp.email) :
        /\ recipients[r].opt_out
        /\ \E k \in DOMAIN log : r \in log[k].inserted /\ LinkCount(links, log[k].cid, r) > 0
\* a step of a dispatch job: its session opens, or its run goes on or ends
DispatchStep(wk) ==
  /\ worker'[wk] /= worker[wk]
  /\ worker[wk].kind = "send_campaign" \/ worker'[wk].kind = "send_campaign"

\* the campaign of the dispatch job that steps
DispatchCid(wk) == IF worker[wk].kind = "send_campaign" THEN worker[wk].cid ELSE worker'[wk].cid

\* C32: a step of a dispatch job leaves the Recipients and the links as they
\* are, and changes nothing of the campaigns but the status of its own.
C32_DispatchWritesOwnStatus ==
  [][\A wk \in Workers : DispatchStep(wk) =>
        /\ recipients' = recipients
        /\ links' = links
        /\ DOMAIN campaigns' = DOMAIN campaigns
        /\ \A c \in DOMAIN campaigns :
             IF c = DispatchCid(wk)
             THEN campaigns' = [campaigns EXCEPT ![c].status = campaigns'[c].status]
             ELSE campaigns'[c] = campaigns[c]]_vars

\* a dispatch job for the second campaign has written its status, the
\* first campaign has linked recipients, and a recipient has opted out
C32_Witness ==
  /\ \E k \in DOMAIN log :
        /\ log[k].kind = "send_campaign" /\ log[k].cid = 2
        /\ log[k].status = "completed" /\ log[k].active /= <<>>
  /\ campaigns[2].status = "sent" /\ store0.campaigns[2].status = "pending"
  /\ campaigns[1].status = "pending"
  /\ LoadRecipients(links, 1) /= {}
  /\ resp.op = "opt_out_recipient" /\ resp.status = "ok"
\* a dispatch job that loaded its campaign with the status sent ends
SentAgain(wk) == DispatchEnds(wk) /\ worker[wk].loadedStatus = "sent"

\* C33: a dispatch job that runs for a campaign whose status is sent has
\* invoked the channel for every active recipient when it ends, and ends
\* with the status sent.
C33_SentCampaignSentAgain ==
  [][\A wk \in Workers : SentAgain(wk) =>
        /\ Range(worker[wk].invoked) = Range(worker[wk].active)
        /\ campaigns'[worker[wk].cid].status = "sent"]_vars

\* C33 without the channel and the final status: the job for a campaign
\* whose status is sent runs as any other, with a pass of the send loop for
\* every active recipient, and returns its result
C33_RunsWhateverTheStatus ==
  [][\A wk \in Workers : SentAgain(wk) =>
        /\ worker[wk].attempted = Range(worker[wk].active)
        /\ worker[wk].sent_count + worker[wk].error_count = Len(worker[wk].active)
        /\ log'[Len(log')].status \in {"completed", "completed_no_recipients"}]_vars

\* a run for a campaign already sent has ended with active recipients
C33_SecondRunEnded ==
  \E k \in DOMAIN log :
     /\ log[k].kind = "send_campaign" /\ log[k].active /= <<>>
     /\ \E j \in DOMAIN log : j < k /\ log[j].kind = "send_campaign"
                                /\ log[j].status = "completed"
\* C34: every message in the queue is for a campaign that is in the store,
\* and no task run has failed with NotFound: the campaign a job is enqueued
\* for was committed before the message was sent.
C34_EnqueuedJobFindsCampaign ==
  /\ \A m \in DOMAIN queue : queue[m].cid \in DOMAIN campaigns
  /\ \A k \in DOMAIN log : log[k].status /= "NotFound"

\* the reconcile job of a created campaign and the dispatch job of a send
\* request have both run to their end
C34_Witness ==
  /\ \E k \in DOMAIN log : log[k].kind = "process_recipients" /\ log[k].status = "completed"
  /\ \E k \in DOMAIN log : log[k].kind = "send_campaign"
                            /\ log[k].status \in {"completed", "completed_no_recipients"}
\* no reconcile job of campaign c has committed
Unreconciled(c) ==
  \A k \in DOMAIN log :
     ~(log[k].kind = "process_recipients" /\ log[k].cid = c /\ log[k].status = "completed")

\* C35: a dispatch job that ends while no reconcile job of its campaign has
\* committed has found no recipient, has sent nothing and ends with the
\* status sent_no_recipients; and with the one send request made, the
\* channel is invoked for no recipient afterwards.
C35_DispatchBeforeReconcile ==
  /\ [][\A wk \in Workers :
          (DispatchEnds(wk) /\ Unreconciled(worker[wk].cid)) =>
             /\ worker[wk].coll = {} /\ worker[wk].active = <<>>
             /\ worker[wk].sent_count = 0 /\ channel' = <<>>
             /\ campaigns'[worker[wk].cid].status = "sent_no_recipients"]_vars
  /\ []((\E k \in DOMAIN log : log[k].status = "completed_no_recipients") => channel = <<>>)

\* C35 without the final status: the job finds no recipient and sends
\* nothing, and nothing is sent afterwards
C35_NothingSent ==
  /\ [][\A wk \in Workers :
          (DispatchEnds(wk) /\ Unreconciled(worker[wk].cid)) =>
             /\ worker[wk].coll = {} /\ worker[wk].active = <<>>
             /\ worker[wk].sent_count = 0 /\ channel' = <<>>
             /\ log'[Len(log')].status = "completed_no_recipients"]_vars
  /\ []((\E k \in DOMAIN log : log[k].status = "completed_no_recipients") => channel = <<>>)

\* the dispatch job ran first and the reconcile job linked a recipient later
C35_ReconciledLater ==
  \E j, k \in DOMAIN log :
     /\ j < k
     /\ log[j].status = "completed_no_recipients"
     /\ log[k].kind = "process_recipients" /\ log[k].status = "completed"
     /\ log[k].inserted /= {}

\* a second run of the dispatch job, after the reconcile job, has had the
\* recipients linked meanwhile in its send loop
C35_LaterRunAttempts ==
  \E j, k \in DOMAIN log :
     /\ j < k
     /\ log[j].status = "completed_no_recipients"
     /\ log[k].kind = "send_campaign" /\ log[k].active /= <<>>

====
